---- MODULE Spec2Model ----
(***************************************************************************)
(* Model of the crate root of bindgen-lto-opt (src/lib.rs).                *)
(*                                                                         *)
(* The crate root is four items: two public module declarations and two    *)
(* public re-exports that rename them.  The model keeps the items as       *)
(* records, resolves a root name the way rustc resolves the first segment  *)
(* of a path (following `use` items to the module they name), and lets a   *)
(* consumer call `crate::<root name>::<item>(arg)` through any public root *)
(* name.  The bodies of the two modules are not part of lib.rs; each       *)
(* module is represented by the history of the calls dispatched to it,     *)
(* which is the most general state a module can have.                      *)
(***************************************************************************)
EXTENDS Naturals, Sequences, FiniteSets, TLC

\* ---- bounds -------------------------------------------------------------
MaxCalls == 2      \* calls a consumer makes in one behaviour
NumItems == 2      \* item names looked up inside a module
MaxArg   == 1      \* arguments range over 0..MaxArg

ItemNames == 1..NumItems
Args      == 0..MaxArg

\* ---- the items of lib.rs ------------------------------------------------
\* line 1: pub mod c_wrapper;
mod_c_wrapper ==
  [kind |-> "mod", vis |-> "pub", name |-> "c_wrapper", target |-> "c_wrapper"]

private_mod_rust_port ==
  [kind |-> "mod", vis |-> "priv", name |-> "rust_port", target |-> "rust_port"]

\* line 2: pub mod rust_port;
mod_rust_port ==
  [kind |-> "mod", vis |-> "pub", name |-> "rust_port", target |-> "rust_port"]

use_rust_port_as_c_ffi ==
  [kind |-> "use", vis |-> "pub", name |-> "c_ffi", target |-> "rust_port"]

\* line 5: pub use c_wrapper as c_ffi;
use_c_ffi ==
  [kind |-> "use", vis |-> "pub", name |-> "c_ffi", target |-> "c_wrapper"]

\* line 6: pub use rust_port as native;
use_native ==
  [kind |-> "use", vis |-> "pub", name |-> "native", target |-> "rust_port"]

\* the crate root, in source order
CrateItems == <<mod_c_wrapper, mod_rust_port, use_c_ffi, use_native>>

ItemSet == {CrateItems[i] : i \in 1..Len(CrateItems)}

\* every name the crate root binds, and the public ones
RootNames   == {d.name : d \in ItemSet}
PublicNames == {d.name : d \in {e \in ItemSet : e.vis = "pub"}}

\* names bound by a `mod` item, and names bound by a `use ... as` item
Modules == {d.name : d \in {e \in ItemSet : e.kind = "mod"}}
Aliases == {d.name : d \in {e \in ItemSet : e.kind = "use"}}

\* the item that binds a root name
Decl(n) == CHOOSE d \in ItemSet : d.name = n

\* Resolution of a root name: a `mod` item names its own module, a `use`
\* item names whatever its path resolves to in the crate root.
RECURSIVE Resolve(_)
Resolve(n) ==
  IF Decl(n).kind = "mod" THEN n ELSE Resolve(Decl(n).target)

\* ---- state --------------------------------------------------------------
\* state[m]: the calls dispatched to module m so far, in order
\* trace: the consumer's calls, each with the path used and the function reached
VARIABLES state, trace

vars == <<state, trace>>

\* the function a call `crate::n::it(a)` reaches
Dispatch(n, it, a) == [module |-> Resolve(n), item |-> it, arg |-> a]

EffectShim(n, it, a, s) ==
  LET m == Resolve(n) IN
  IF n \in Aliases
    THEN [s EXCEPT ![m] = Append(Append(@, <<0, a>>), <<it, a>>)]
    ELSE [s EXCEPT ![m] = Append(@, <<it, a>>)]

\* the module states after the call `crate::n::it(a)` made in states s
Effect(n, it, a, s) ==
  [s EXCEPT ![Resolve(n)] = Append(@, <<it, a>>)]

Init ==
  /\ state = [m \in Modules |-> <<>>]
  /\ trace = <<>>

\* a consumer calls `crate::n::it(a)`
Call(n, it, a) ==
  /\ n \in PublicNames
  /\ Len(trace) < MaxCalls
  /\ state' = Effect(n, it, a, state)
  /\ trace' = Append(trace, [name |-> n, fn |-> Dispatch(n, it, a)])

CallCWrapper == \E it \in ItemNames, a \in Args : Call("c_wrapper", it, a)
CallRustPort == \E it \in ItemNames, a \in Args : Call("rust_port", it, a)
CallCFfi     == \E it \in ItemNames, a \in Args : Call("c_ffi", it, a)
CallNative   == \E it \in ItemNames, a \in Args : Call("native", it, a)

Next ==
  \/ CallCWrapper
  \/ CallRustPort
  \/ CallCFfi
  \/ CallNative

Spec == Init /\ [][Next]_vars

TypeOK ==
  /\ state \in [Modules -> Seq(ItemNames \X Args)]
  /\ Len(trace) <= MaxCalls

\* the calls made so far through root name n
CallsVia(n) == {i \in 1..Len(trace) : trace[i].name = n}

\* ---- C1 -----------------------------------------------------------------
\* C1: the crate root has exactly the two aliases c_ffi and native; c_ffi
\* resolves to c_wrapper and native to rust_port, never the other way round
\* and never to the same module, and every call made through an alias
\* reaches the module the alias is fixed to.
C1_AliasMapping ==
  /\ Aliases = {"c_ffi", "native"}
  /\ Resolve("c_ffi") = "c_wrapper"
  /\ Resolve("native") = "rust_port"
  /\ Resolve("c_ffi") # "rust_port"
  /\ Resolve("native") # "c_wrapper"
  /\ Resolve("c_ffi") # Resolve("native")
  /\ \A i \in CallsVia("c_ffi") : trace[i].fn.module = "c_wrapper"
  /\ \A i \in CallsVia("native") : trace[i].fn.module = "rust_port"

\* both aliases have been called through
C1_Witness ==
  /\ CallsVia("c_ffi") # {}
  /\ CallsVia("native") # {}

\* ---- C3 -----------------------------------------------------------------
\* the original name each alias stands for, as the claim states it
OriginalOf(n) == IF n = "c_ffi" THEN "c_wrapper" ELSE "rust_port"

\* C3: every call made through an alias reaches the same function and
\* leaves every module in the same state as the same call made through the
\* original module name would; the call changes the state of that one
\* module only and adds exactly one step to it.
C3_PureReexport ==
  [][ LET c == trace'[Len(trace')] IN
      c.name \in {"c_ffi", "native"} =>
        /\ c.fn = Dispatch(OriginalOf(c.name), c.fn.item, c.fn.arg)
        /\ state' = Effect(OriginalOf(c.name), c.fn.item, c.fn.arg, state)
        /\ \A m \in Modules \ {OriginalOf(c.name)} : state'[m] = state[m]
        /\ Len(state'[OriginalOf(c.name)]) = Len(state[OriginalOf(c.name)]) + 1
    ]_vars

\* a call through an alias has acted on a module that already has state
C3_Witness ==
  \E i \in CallsVia("c_ffi") :
    /\ i > 1
    /\ Len(state["c_wrapper"]) = Len(trace)

\* ---- C8 -----------------------------------------------------------------
\* C8: the aliases add names: the public root names are exactly c_wrapper,
\* rust_port, c_ffi and native, and each module is reachable under exactly
\* two of them, its own name and its alias.
C8_NamesAdded ==
  /\ PublicNames = {"c_wrapper", "rust_port", "c_ffi", "native"}
  /\ \A m \in {"c_wrapper", "rust_port"} :
       Cardinality({n \in PublicNames : Resolve(n) = m}) = 2
  /\ Resolve("c_wrapper") = "c_wrapper"
  /\ Resolve("rust_port") = "rust_port"
  /\ \A i \in 1..Len(trace) :
       trace[i].fn.module \in {"c_wrapper", "rust_port"}

\* one module has been reached under both of its names
C8_Witness ==
  \E i \in CallsVia("rust_port"), j \in CallsVia("native") :
    trace[i].fn.module = trace[j].fn.module
====
